---- MODULE Spec2Model ----
(***************************************************************************)
(* State-machine model of LogTailDisplay (src/LogTailWidget.cpp): the log  *)
(* view, the read cursor filePos_, the file watcher and the journalctl     *)
(* subprocess, together with the environment they react to (the watched    *)
(* file and its external writer, the subprocess).                          *)
(*                                                                         *)
(* Text is a sequence of one-character strings.  The byte alphabet of the  *)
(* log sources is scaled down to a letter, a blank and the line break; the *)
(* numeric constants of the source (100 KiB seed window, 50..5000 dialog   *)
(* range, default 500) are scaled down with it, keeping their order        *)
(* relations.  The lines given to colorForLine carry the keywords of the   *)
(* source, and its 40-character prefix is not scaled.                      *)
(***************************************************************************)
EXTENDS Integers, Sequences, FiniteSets, TLC

\* ---------------------------------------------------------------- bounds
\* longest file content explored, in bytes
MaxFile == 2
\* most lines appended to the view between two clears
MaxHist == 2
\* most bytes taken by delta reads between two (re)starts
MaxDelta == 2
\* most unterminated bytes held in the QProcess buffer
MaxProcBuf == 1
\* longest file content a seed is taken from, in bytes
MaxSeedFile == 4
\* most keyword-bearing lines appended to the view between two clears
MaxColored == 1

\* ------------------------------------------------------ program constants
\* 100 * 1024 bytes, scaled
SeedWindow == 3
\* 500, scaled
DefaultMaxLines == 2
\* setMaximumBlockCount(500) in setupUi, scaled
InitialBlockCount == 2
DialogMaxLines  == {1, 2}   \* spinBox->setRange(50, 5000), scaled
LoadableMaxLines == {0, 1}  \* ints QJsonValue::toInt lets through

NL    == "\n"
Bytes == {"a", " ", NL}

LogPath   == <<"/f">>            \* the one path at which a file may exist
OtherPath == <<"/g", " ">>       \* a path at which no file exists
LoadablePaths == {LogPath, OtherPath}
Units == {<<>>, <<"u">>}
\* a JSON value: the key is present with value v, or the key is missing
JVal(x) == [has |-> TRUE, v |-> x]
JNoString == [has |-> FALSE, v |-> <<>>]
JNoType == [has |-> FALSE, v |-> ""]
JNoInt == [has |-> FALSE, v |-> 0]

\* QJsonObject(): no key
EmptyObject ==
    [filePath |-> JNoString, journalUnit |-> JNoString, maxLines |-> JNoInt,
     sourceType |-> JNoType]

RotationMarker == <<"--- log rotated ---">>
FailedToStartLine == <<"journalctl: failed to start">>
\* QString("Cannot open: %1").arg(path)
CannotOpenLine(path) == <<"Cannot open:", " ">> \o path

\* ------------------------------------------------------------ text helpers
Max2(a, b) == IF a >= b THEN a ELSE b
SetMin(S) == CHOOSE x \in S : \A y \in S : x <= y
SetMax(S) == CHOOSE x \in S : \A y \in S : x >= y

\* QChar::isSpace on the scaled alphabet
isSpace(c) == c \in {" ", NL}

\* QString::trimmed
trimmed(s) ==
    LET keep == {i \in 1..Len(s) : ~isSpace(s[i])}
    IN  IF keep = {} THEN <<>> ELSE SubSeq(s, SetMin(keep), SetMax(keep))

\* QByteArray::split('\n'): the segments between line breaks, the empty
\* ones included; an array without a line break is one segment
RECURSIVE split(_)
split(bs) ==
    LET brk == {i \in 1..Len(bs) : bs[i] = NL}
    IN  IF brk = {} THEN <<bs>>
        ELSE LET i == SetMin(brk)
             IN  <<SubSeq(bs, 1, i - 1)>> \o split(SubSeq(bs, i + 1, Len(bs)))

\* the loop over f.readAll().split('\n'): trim every segment, keep the
\* non-empty ones
RECURSIVE keepNonEmpty(_)
keepNonEmpty(segs) ==
    IF segs = <<>> THEN <<>>
    ELSE LET line == trimmed(Head(segs))
         IN  (IF line # <<>> THEN <<line>> ELSE <<>>) \o keepNonEmpty(Tail(segs))

linesOf(data) == keepNonEmpty(split(data))

\* QList::mid(pos): the elements from position pos on, nothing when pos is
\* past the end
mid(l, pos) ==
    IF pos >= Len(l) THEN <<>> ELSE SubSeq(l, Max2(pos, 0) + 1, Len(l))

\* the limit enforced at the wrong end: the newest blocks are removed
ensureMaximumBlockCount_dropNewest(n, blocks) ==
    IF n <= 0 THEN blocks
    ELSE IF Len(blocks) <= n THEN blocks
    ELSE SubSeq(blocks, 1, n)

\* QTextDocument's maximumBlockCount: a value <= 0 means no limit, else the
\* oldest blocks are removed until at most n remain
ensureMaximumBlockCount(n, blocks) ==
    IF n <= 0 THEN blocks
    ELSE IF Len(blocks) <= n THEN blocks
    ELSE SubSeq(blocks, Len(blocks) - n + 1, Len(blocks))


\* ---------------------------------------------------------- classification
Letters ==
    <<"a", "b", "c", "d", "e", "f", "g", "h", "i", "j", "k", "l", "m",
      "n", "o", "p", "q", "r", "s", "t", "u", "v", "w", "x", "y", "z">>
Capitals ==
    <<"A", "B", "C", "D", "E", "F", "G", "H", "I", "J", "K", "L", "M",
      "N", "O", "P", "Q", "R", "S", "T", "U", "V", "W", "X", "Y", "Z">>

\* QString::toUpper on the letters a..z; every other character is kept
UpperOf ==
    [c \in {Letters[i] : i \in 1..26} |-> Capitals[CHOOSE i \in 1..26 : Letters[i] = c]]
toUpperChar(c) == IF c \in DOMAIN UpperOf THEN UpperOf[c] ELSE c
toUpper(s) == [i \in 1..Len(s) |-> toUpperChar(s[i])]

\* QString::left(n)
left(s, n) == IF n >= Len(s) THEN s ELSE SubSeq(s, 1, n)

\* QString::contains(w)
contains(s, w) ==
    /\ Len(s) >= Len(w)
    /\ \E k \in 0..(Len(s) - Len(w)) : SubSeq(s, k + 1, k + Len(w)) = w

HeadLen == 40

ERROR   == <<"E", "R", "R", "O", "R">>
FATAL   == <<"F", "A", "T", "A", "L">>
CRIT    == <<"C", "R", "I", "T">>
EMERG   == <<"E", "M", "E", "R", "G">>
ALERT   == <<"A", "L", "E", "R", "T">>
WARN    == <<"W", "A", "R", "N">>
DEBUG   == <<"D", "E", "B", "U", "G">>
TRACE   == <<"T", "R", "A", "C", "E">>
VERBOSE == <<"V", "E", "R", "B", "O", "S", "E">>
INFO    == <<"I", "N", "F", "O">>
NOTICE  == <<"N", "O", "T", "I", "C", "E">>

Red    == "#ff5555"
Orange == "#ffb86c"
Grey   == "#6272a4"
Cyan   == "#8be9fd"
Plain  == "#c8cee8"

\* the whole line searched, not its first 40 characters
colorForLine_wholeLine(line) ==
    LET head == toUpper(line)
    IN  IF \/ contains(head, ERROR) \/ contains(head, FATAL) \/ contains(head, CRIT)
           \/ contains(head, EMERG) \/ contains(head, ALERT)
        THEN Red
        ELSE IF contains(head, WARN) THEN Orange
        ELSE IF contains(head, DEBUG) \/ contains(head, TRACE) \/ contains(head, VERBOSE)
        THEN Grey
        ELSE IF contains(head, INFO) \/ contains(head, NOTICE) THEN Cyan
        ELSE Plain

colorForLine(line) ==
    LET head == toUpper(left(line, HeadLen))
    IN  IF \/ contains(head, ERROR) \/ contains(head, FATAL) \/ contains(head, CRIT)
           \/ contains(head, EMERG) \/ contains(head, ALERT)
        THEN Red
        ELSE IF contains(head, WARN) THEN Orange
        ELSE IF contains(head, DEBUG) \/ contains(head, TRACE) \/ contains(head, VERBOSE)
        THEN Grey
        ELSE IF contains(head, INFO) \/ contains(head, NOTICE) THEN Cyan
        ELSE Plain

\* ------------------------------------------------------------------ state
VARIABLES
    config_,        \* LogTailConfig: source, filePath, journalUnit, maxLines
    stackIndex,     \* stack_->currentIndex(): 0 placeholder, 1 log view
    maxBlockCount,  \* logView_->maximumBlockCount()
    view,           \* the non-empty blocks of logView_'s document, oldest first
    colors,         \* the foreground colour of each of these blocks
    filePos_,       \* read cursor
    watcher_,       \* watcher_ != nullptr
    process_,       \* process_ != nullptr
    liveWatchers,   \* QFileSystemWatcher objects that exist
    liveProcs,      \* QProcess objects that exist
    watched,        \* watcher_->files() contains the configured path
    notified,       \* a fileChanged signal is waiting to be handled
    procState,      \* QProcess::state() of process_
    procBuf,        \* bytes in process_'s read buffer, not yet a full line
    alive,          \* the LogTailDisplay exists (not yet destroyed)
    file,           \* content of the file at LogPath
    fileOpenable,   \* QFile::open(ReadOnly) on LogPath succeeds
    appended,       \* history: lines given to appendLines since the last clear
    readTo,         \* history: offset up to which file bytes were read
    deltaBytes,     \* history: bytes taken by delta reads since the last (re)start
    deltaLines,     \* history: lines made from them
    truncPending,   \* history: the file shrank and no notification was handled since
    truncUnseen,    \* history: the file shrank and no handler has sized it since
    tracking,       \* history: whether readTo, deltaBytes, deltaLines are recorded
    display_,       \* LogTailWidget::display_ != nullptr
    pending_,       \* LogTailWidget::pending_
    lastData,       \* history: the object given to the last deserialize
    op              \* history: the operation that made the last step, the path
                    \* it took and the file size it saw

engineVars == <<config_, stackIndex, maxBlockCount, view, colors, filePos_, watcher_,
                process_, liveWatchers, liveProcs, watched, notified,
                procState, procBuf, appended, readTo, deltaBytes, deltaLines>>
vars == <<config_, stackIndex, maxBlockCount, view, colors, filePos_, watcher_,
          process_, liveWatchers, liveProcs, watched, notified, procState,
          procBuf, alive, file, fileOpenable, appended, readTo, deltaBytes,
          deltaLines, truncPending, truncUnseen, tracking, display_, pending_,
          lastData, op>>

pluginVars == <<display_, pending_, lastData>>

\* the engine's state as one value, so that the methods below are functions
\* from state to state and compose the way the calls in the source do
Cur == [appended |-> appended, colors |-> colors, config_ |-> config_,
        deltaBytes |-> deltaBytes,
        deltaLines |-> deltaLines, filePos_ |-> filePos_,
        liveProcs |-> liveProcs, liveWatchers |-> liveWatchers,
        maxBlockCount |-> maxBlockCount, notified |-> notified,
        procBuf |-> procBuf, procState |-> procState, process_ |-> process_,
        readTo |-> readTo, stackIndex |-> stackIndex, view |-> view,
        watched |-> watched, watcher_ |-> watcher_]

Install(s) ==
    /\ config_' = s.config_
    /\ stackIndex' = s.stackIndex
    /\ maxBlockCount' = s.maxBlockCount
    /\ view' = s.view
    /\ colors' = s.colors
    /\ filePos_' = s.filePos_
    /\ watcher_' = s.watcher_
    /\ process_' = s.process_
    /\ liveWatchers' = s.liveWatchers
    /\ liveProcs' = s.liveProcs
    /\ watched' = s.watched
    /\ notified' = s.notified
    /\ procState' = s.procState
    /\ procBuf' = s.procBuf
    /\ appended' = s.appended
    /\ readTo' = (IF tracking THEN s.readTo ELSE 0)
    /\ deltaBytes' = (IF tracking THEN s.deltaBytes ELSE <<>>)
    /\ deltaLines' = (IF tracking THEN s.deltaLines ELSE <<>>)
    /\ tracking' = tracking

\* ------------------------------------------------------- the view's methods
\* logView_->clear()
clear(s) == [s EXCEPT !.view = <<>>, !.colors = <<>>, !.appended = <<>>]

\* logView_->setMaximumBlockCount(n)
setMaximumBlockCount(s, n) ==
    [s EXCEPT !.maxBlockCount = n, !.view = ensureMaximumBlockCount(n, s.view),
              !.colors = ensureMaximumBlockCount(n, s.colors)]

\* appendLines: one edit block that adds every line as a new last block in
\* the colour colorForLine gives it; the document enforces its block limit
\* when the edit block ends
appendLines(s, lines) ==
    IF lines = <<>> THEN s
    ELSE LET fmt == [i \in 1..Len(lines) |-> colorForLine(lines[i])]
         IN  [s EXCEPT !.view = ensureMaximumBlockCount(s.maxBlockCount, s.view \o lines),
                       !.colors = ensureMaximumBlockCount(s.maxBlockCount, s.colors \o fmt),
                       !.appended = s.appended \o lines]

\* appendLine: appendLines of the one line, then the colour of the last block
\* is overridden
appendLine(s, line, color) ==
    LET a == appendLines(s, <<line>>)
    IN  [a EXCEPT !.colors = [i \in 1..Len(a.colors) |->
                                  IF i = Len(a.colors) THEN color ELSE a.colors[i]]]

\* ------------------------------------------------------- source management
\* the watcher deleted but the pointer not reset
stopWatcher_keepPointer(s) ==
    IF s.watcher_
    THEN [s EXCEPT !.watched = FALSE, !.notified = FALSE,
                   !.liveWatchers = s.liveWatchers - 1]
    ELSE s

stopWatcher(s) ==
    IF s.watcher_
    THEN [s EXCEPT !.watched = FALSE, !.notified = FALSE,
                   !.liveWatchers = s.liveWatchers - 1, !.watcher_ = FALSE]
    ELSE s

\* kill() and waitForFinished(500) on a process that has not ended yet make
\* QProcess emit errorOccurred, which runs the connected lambda
stopProcess(s) ==
    IF s.process_
    THEN LET k == IF s.procState # "NotRunning"
                  THEN appendLine(s, FailedToStartLine, Red) ELSE s
         IN  [k EXCEPT !.liveProcs = s.liveProcs - 1, !.process_ = FALSE,
                       !.procState = "NotRunning", !.procBuf = <<>>]
    ELSE s

\* the subprocess forgotten
stopSource_watcherOnly(s) == stopWatcher(s)

stopSource(s) == stopProcess(stopWatcher(s))

\* QFile::open(ReadOnly) succeeds
canOpen(path, openable) == path = LogPath /\ openable

\* f.seek(pos); f.readAll()
readAllFrom(f, pos) == IF pos >= Len(f) THEN <<>> ELSE SubSeq(f, pos + 1, Len(f))

\* what the external writer may do to the file between two system calls of
\* one handler: nothing, append a byte, or cut the file shorter
During(f) ==
    {f} \cup {f \o <<b>> : b \in IF Len(f) < MaxFile THEN Bytes ELSE {}}
        \cup {SubSeq(f, 1, k) : k \in 0..(Len(f) - 1)}

\* the same for a writer that only appends
DuringAppend(f) == {f1 \in During(f) : Len(f1) >= Len(f)}

\* the seed read from the start of the file
seekTo_fromStart(fileSize) == 0

seekTo(fileSize) == Max2(0, fileSize - SeedWindow)

\* the size startFileTail stores in filePos_
seedCursor(fileSize, readEnd) == fileSize

\* the open failure reported with the cursor left as it was
openFailed_keepCursor(s) == appendLine(s, CannotOpenLine(s.config_.filePath), Red)

\* startFileTail's branch for a file that cannot be opened
openFailed(s) ==
    [appendLine(s, CannotOpenLine(s.config_.filePath), Red) EXCEPT !.filePos_ = 0]

\* startFileTail; f0 is the file when f.size() is taken, f1 when it is read
startFileTail(s, openable, f0, f1) ==
    IF ~canOpen(s.config_.filePath, openable)
    THEN openFailed(s)
    ELSE LET fileSize == Len(f0)
             all      == linesOf(readAllFrom(f1, seekTo(fileSize)))
             lines    == IF Len(all) > s.config_.maxLines
                         THEN mid(all, Len(all) - s.config_.maxLines) ELSE all
             a        == appendLines(s, lines)
         IN  [a EXCEPT !.filePos_ = seedCursor(fileSize, Len(f1)),
                       !.readTo = Max2(seekTo(fileSize), Len(f1)),
                       !.deltaBytes = <<>>, !.deltaLines = <<>>,
                       !.liveWatchers = a.liveWatchers + 1, !.watcher_ = TRUE,
                       !.watched = TRUE, !.notified = FALSE]

startJournalctl(s) ==
    [s EXCEPT !.liveProcs = s.liveProcs + 1, !.process_ = TRUE,
              !.procState = "Starting", !.procBuf = <<>>]

applySource(s, openable, f0, f1) ==
    LET k == clear(setMaximumBlockCount(stopSource(s), s.config_.maxLines))
        c == [k EXCEPT !.readTo = 0, !.deltaBytes = <<>>, !.deltaLines = <<>>]
    IN  IF c.config_.source = "None" THEN [c EXCEPT !.stackIndex = 0]
        ELSE IF c.config_.source = "File"
             THEN startFileTail([c EXCEPT !.stackIndex = 1], openable, f0, f1)
             ELSE startJournalctl([c EXCEPT !.stackIndex = 1])

\* loadConfig's reading of the JSON object
sourceOf(j) ==
    LET type == IF j.has THEN j.v ELSE ""
    IN  IF type = "file" THEN "File"
        ELSE IF type = "journalctl" THEN "Journalctl" ELSE "None"

toString(j) == IF j.has THEN j.v ELSE <<>>
toInt(j, dflt) == IF j.has THEN j.v ELSE dflt

configOf(obj) ==
    [filePath |-> toString(obj.filePath),
     journalUnit |-> toString(obj.journalUnit),
     maxLines |-> toInt(obj.maxLines, DefaultMaxLines),
     source |-> sourceOf(obj.sourceType)]

loadConfig(s, obj, openable, f0, f1) ==
    applySource([s EXCEPT !.config_ = configOf(obj)], openable, f0, f1)

\* saveConfig's switch over config_.source
sourceTypeOf(source) ==
    IF source = "File" THEN "file"
    ELSE IF source = "Journalctl" THEN "journalctl" ELSE ""

\* the journalUnit key left out of the object
saveConfig_withoutUnit(cfg) ==
    [filePath |-> JVal(cfg.filePath), journalUnit |-> JNoString,
     maxLines |-> JVal(cfg.maxLines), sourceType |-> JVal(sourceTypeOf(cfg.source))]

\* saveConfig: the four keys are always written; a QString and an int are
\* held by the QJsonValue as they are
saveConfig(cfg) ==
    [filePath |-> JVal(cfg.filePath), journalUnit |-> JVal(cfg.journalUnit),
     maxLines |-> JVal(cfg.maxLines), sourceType |-> JVal(sourceTypeOf(cfg.source))]

\* ------------------------------------------------------------ file deltas
\* the comparison off by one, either way
isRotation_offByOne(currentSize, pos) == currentSize + 1 < pos
isRotation_orEqual(currentSize, pos) == currentSize <= pos

isRotation(currentSize, pos) == currentSize < pos

\* the truncation branch without the cursor reset
rotate_keepCursor(s) == appendLine(clear(s), RotationMarker, Grey)

\* the truncation branch: cursor to 0, view cleared, marker appended
rotate(s) ==
    appendLine(clear([s EXCEPT !.filePos_ = 0, !.readTo = 0,
                               !.deltaBytes = <<>>, !.deltaLines = <<>>]),
               RotationMarker, Grey)

\* the state and the exit path of onFileChanged; f0 is the file when f.size()
\* is taken, f1 when it is read
onFileChanged(s, path, openable, f0, f1) ==
    IF ~canOpen(path, openable) THEN [path |-> "openFailed", st |-> s]
    ELSE
    LET currentSize == Len(f0)
        rot == isRotation(currentSize, s.filePos_)
        r   == IF rot THEN rotate(s) ELSE s
    IN  IF r.filePos_ = currentSize
        THEN [path |-> IF rot THEN "rotatedEmpty" ELSE "spurious", st |-> r]
        ELSE
        LET newData == readAllFrom(f1, r.filePos_)
            pos     == Max2(r.filePos_, Len(f1))
            lines   == linesOf(newData)
            a       == appendLines([r EXCEPT !.filePos_ = pos], lines)
        IN  [path |-> IF rot THEN "rotatedRead" ELSE "read",
             st |-> [a EXCEPT !.readTo = pos,
                              !.deltaBytes = r.deltaBytes \o newData,
                              !.deltaLines = r.deltaLines \o lines,
                              !.watched = TRUE]]


\* ------------------------------------------------------------- journalctl
\* onJournalOutput after the bytes of chunk reached the QProcess buffer:
\* every complete line is read, the unterminated rest stays in the buffer
onJournalOutput(s, chunk) ==
    LET segs  == split(s.procBuf \o chunk)
        full  == SubSeq(segs, 1, Len(segs) - 1)
        lines == keepNonEmpty(full)
    IN  [appendLines(s, lines) EXCEPT !.procBuf = segs[Len(segs)]]

\* the lambda connected to QProcess::errorOccurred
onErrorOccurred(s) == appendLine(s, FailedToStartLine, Red)

\* ------------------------------------------------- lines to be classified
LowerOf ==
    [c \in {Capitals[i] : i \in 1..26} |-> Letters[CHOOSE i \in 1..26 : Capitals[i] = c]]
toLowerChar(c) == IF c \in DOMAIN LowerOf THEN LowerOf[c] ELSE c
toLower(s) == [i \in 1..Len(s) |-> toLowerChar(s[i])]

Keywords ==
    {ERROR, FATAL, CRIT, EMERG, ALERT, WARN, DEBUG, TRACE, VERBOSE, INFO, NOTICE}

\* n characters that belong to no keyword
Pad(n) == [i \in 1..n |-> "-"]

\* the lines journalctl writes: nothing or one keyword in either case or two
\* keywords of different classes, at the start of the line, ending at or
\* across character 40, or after it
ClassLines ==
    LET words == Keywords \cup {toLower(k) : k \in Keywords}
        reps  == {ERROR, WARN, DEBUG, INFO}
        pairs == {p[1] \o p[2] : p \in {q \in reps \X reps : q[1] # q[2]}}
    IN  {Pad(n) \o w : n \in {0, HeadLen - 4, HeadLen},
                       w \in words \cup pairs \cup {Pad(1)}}

\* ------------------------------------------------------------------- Init
InitialConfig ==
    [filePath |-> <<>>, journalUnit |-> <<>>, maxLines |-> DefaultMaxLines,
     source |-> "None"]

\* the members of a LogTailDisplay as its constructor leaves them, and the
\* environment at that time
InitDisplay ==
    /\ config_ = InitialConfig
    /\ stackIndex = 0
    /\ maxBlockCount = InitialBlockCount
    /\ view = <<>>
    /\ colors = <<>>
    /\ filePos_ = 0
    /\ watcher_ = FALSE
    /\ process_ = FALSE
    /\ liveWatchers = 0
    /\ liveProcs = 0
    /\ watched = FALSE
    /\ notified = FALSE
    /\ procState = "NotRunning"
    /\ procBuf = <<>>
    /\ fileOpenable = TRUE
    /\ appended = <<>>
    /\ readTo = 0
    /\ deltaBytes = <<>>
    /\ deltaLines = <<>>
    /\ truncPending = FALSE
    /\ truncUnseen = FALSE
    /\ op = [name |-> "init", path |-> "-", size |-> 0]

\* a display that createWidget made with nothing pending
InitEngine ==
    /\ InitDisplay
    /\ alive = TRUE
    /\ display_ = TRUE
    /\ pending_ = EmptyObject
    /\ lastData = EmptyObject

InitBase == InitEngine /\ file = <<>>

Init == InitBase /\ tracking = FALSE

\* the same start, with the delta reads recorded
InitTail == InitBase /\ tracking = TRUE

\* the histories stay within the bounds
Bounded(s) ==
    /\ Len(s.appended) <= MaxHist
    /\ tracking => Len(s.deltaBytes) <= MaxDelta

JObject(type, path, n) ==
    [filePath |-> JVal(path), journalUnit |-> JVal(<<>>), maxLines |-> n,
     sourceType |-> JVal(type)]

\* the persisted objects given to loadConfig: a file source with every
\* loadable maxLines and without the key, one at a path that cannot be
\* opened, no source
FileObjects ==
    {JObject("file", LogPath, n) : n \in {JVal(k) : k \in LoadableMaxLines} \cup {JNoInt}}
        \cup {JObject("file", OtherPath, JNoInt), JObject("", LogPath, JNoInt)}

\* and the journalctl source
JsonObjects ==
    FileObjects
        \cup {JObject("journalctl", LogPath, n) :
                   n \in {JVal(k) : k \in LoadableMaxLines} \cup {JNoInt}}

\* persisted objects with every key present: every source, with and without
\* a path and a unit
SavedObjects ==
    [filePath : {JVal(p) : p \in {<<>>} \cup LoadablePaths},
     journalUnit : {JVal(u) : u \in Units},
     maxLines : {JVal(n) : n \in DialogMaxLines},
     sourceType : {JVal(t) : t \in {"file", "journalctl", ""}}]

\* the paths typed into the dialog, which trims them
DialogPaths == {trimmed(p) : p \in {LogPath}}

\* ---------------------------------------------------------------- actions
\* applySource; files1 are the contents the writer can have given the file by
\* the time startFileTail reads it
Configure(name, cfg, files1) ==
    \E f1 \in files1 :
        LET opens == cfg.source = "File" /\ canOpen(cfg.filePath, fileOpenable)
            s == applySource([Cur EXCEPT !.config_ = cfg], fileOpenable, file, f1)
        IN  /\ alive
            /\ (~opens => f1 = file)
            /\ Bounded(s)
            /\ Install(s)
            /\ file' = f1
            /\ truncPending' = (IF opens THEN Len(f1) < Len(file) ELSE truncPending)
            /\ truncUnseen' = (IF opens THEN Len(f1) < Len(file) ELSE truncUnseen)
            /\ op' = [name |-> name,
                      path |-> IF cfg.source # "File" THEN "-"
                               ELSE IF opens THEN "opened" ELSE "openFailed",
                      size |-> IF opens THEN Len(file) ELSE 0]
            /\ UNCHANGED <<alive, fileOpenable, display_, pending_, lastData>>

\* LogTailDisplay::loadConfig
LoadConfigOf(objs, files1) ==
    \E obj \in objs : Configure("loadConfig", configOf(obj), files1)

LoadConfig == LoadConfigOf(JsonObjects, During(file))

\* LogTailDisplay::openConfig, the dialog accepted
OpenConfigOf(radios, files1) ==
    \E src \in radios, p \in DialogPaths, u \in {<<>>}, n \in DialogMaxLines :
        Configure("openConfig",
                  [filePath |-> p, journalUnit |-> u, maxLines |-> n, source |-> src],
                  files1)

OpenConfig == OpenConfigOf({"File", "Journalctl"}, During(file))

\* the same two operations of an engine that is never given a subprocess
LoadFileConfig == LoadConfigOf(FileObjects, During(file))
OpenFileConfig == OpenConfigOf({"File"}, During(file))

\* the same operations beside a writer that is idle
LoadConfigQuiet == LoadConfigOf(JsonObjects, {file})
OpenConfigQuiet == OpenConfigOf({"File", "Journalctl"}, {file})

LoadFileConfigQuiet == LoadConfigOf(FileObjects, {file})
OpenFileConfigQuiet == OpenConfigOf({"File"}, {file})
LoadSavedConfig == LoadConfigOf(SavedObjects, {file})

\* LogTailWidget::serialize and then LogTailWidget::deserialize of its result:
\* loadConfig(saveConfig())
SaveThenLoad == Configure("saveThenLoad", configOf(saveConfig(config_)), {file})

\* the same operations beside a writer that only appends
LoadFileConfigGrowing == LoadConfigOf(FileObjects, DuringAppend(file))
OpenFileConfigGrowing == OpenConfigOf({"File"}, DuringAppend(file))

\* LogTailDisplay::onFileChanged, run for a waiting fileChanged signal
OnFileChangedOf(files1) ==
    \E f1 \in files1 :
        LET r == onFileChanged([Cur EXCEPT !.notified = FALSE],
                               config_.filePath, fileOpenable, file, f1)
            reads == r.path \in {"read", "rotatedRead"}
        IN  /\ alive /\ watcher_ /\ notified
            /\ (~reads => f1 = file)
            /\ Bounded(r.st)
            /\ Install([r.st EXCEPT !.notified = (watched /\ f1 # file)])
            /\ file' = f1
            /\ truncPending' = (Len(f1) < Len(file))
            /\ truncUnseen' = (IF r.path = "openFailed" THEN truncUnseen
                               ELSE Len(f1) < Len(file))
            /\ op' = [name |-> "onFileChanged", path |-> r.path,
                      size |-> IF r.path = "openFailed" THEN 0 ELSE Len(file)]
            /\ UNCHANGED <<alive, fileOpenable, display_, pending_, lastData>>

OnFileChanged == OnFileChangedOf(During(file))
OnFileChangedGrowing == OnFileChangedOf(DuringAppend(file))
OnFileChangedQuiet == OnFileChangedOf({file})

\* QProcess reports that journalctl runs
ProcStarted ==
    /\ alive /\ process_ /\ procState = "Starting"
    /\ procState' = "Running"
    /\ op' = [name |-> "procStarted", path |-> "-", size |-> 0]
    /\ UNCHANGED <<display_, pending_, lastData>>
    /\ UNCHANGED <<config_, stackIndex, maxBlockCount, view, colors, filePos_, watcher_,
                   process_, liveWatchers, liveProcs, watched, notified, procBuf,
                   alive, file, fileOpenable, appended, readTo, deltaBytes,
                   deltaLines, truncPending, truncUnseen, tracking>>

\* QProcess emits errorOccurred: FailedToStart while starting, Crashed while
\* running; either way the process has ended
ProcError ==
    /\ alive /\ process_ /\ procState # "NotRunning"
    /\ LET s == onErrorOccurred([Cur EXCEPT !.procState = "NotRunning"])
       IN  Bounded(s) /\ Install(s)
    /\ op' = [name |-> "errorOccurred",
              path |-> IF procState = "Starting" THEN "FailedToStart" ELSE "Crashed",
              size |-> 0]
    /\ UNCHANGED <<alive, file, fileOpenable, truncPending, truncUnseen,
                   display_, pending_, lastData>>

\* journalctl exits by itself with a normal exit status
ProcExited ==
    /\ alive /\ process_ /\ procState = "Running"
    /\ procState' = "NotRunning"
    /\ op' = [name |-> "procExited", path |-> "-", size |-> 0]
    /\ UNCHANGED <<display_, pending_, lastData>>
    /\ UNCHANGED <<config_, stackIndex, maxBlockCount, view, colors, filePos_, watcher_,
                   process_, liveWatchers, liveProcs, watched, notified, procBuf,
                   alive, file, fileOpenable, appended, readTo, deltaBytes,
                   deltaLines, truncPending, truncUnseen, tracking>>

\* LogTailDisplay::onJournalOutput, run when journalctl wrote a byte
OnJournalOutput ==
    \E b \in Bytes :
        /\ alive /\ process_ /\ procState = "Running"
        /\ LET s == onJournalOutput(Cur, <<b>>)
           IN  /\ Len(s.procBuf) <= MaxProcBuf
               /\ Bounded(s)
               /\ Install(s)
        /\ op' = [name |-> "onJournalOutput", path |-> "-", size |-> 0]
        /\ UNCHANGED <<alive, file, fileOpenable, truncPending, truncUnseen,
                       display_, pending_, lastData>>

\* onJournalOutput, run when journalctl wrote one whole line of ClassLines
OnJournalLine ==
    \E line \in ClassLines :
        /\ alive /\ process_ /\ procState = "Running"
        /\ Len(appended) < MaxColored
        /\ Install(onJournalOutput(Cur, line \o <<NL>>))
        /\ op' = [name |-> "onJournalOutput", path |-> "-", size |-> 0]
        /\ UNCHANGED <<alive, file, fileOpenable, truncPending, truncUnseen,
                       display_, pending_, lastData>>

\* ------------------------------------------------------------ the plugin
\* a LogTailDisplay right after its constructor
Fresh ==
    [appended |-> <<>>, colors |-> <<>>, config_ |-> InitialConfig,
     deltaBytes |-> <<>>, deltaLines |-> <<>>, filePos_ |-> 0,
     liveProcs |-> 0, liveWatchers |-> 0, maxBlockCount |-> InitialBlockCount,
     notified |-> FALSE, procBuf |-> <<>>, procState |-> "NotRunning",
     process_ |-> FALSE, readTo |-> 0, stackIndex |-> 0, view |-> <<>>,
     watched |-> FALSE, watcher_ |-> FALSE]

\* QJsonObject::isEmpty
isEmpty(obj) ==
    ~obj.filePath.has /\ ~obj.journalUnit.has /\ ~obj.maxLines.has
        /\ ~obj.sourceType.has

\* the new display left as constructed, whatever is pending
createWidget_ignoresPending(pending, openable, f) == Fresh

\* LogTailWidget::createWidget: the state of the new display
createWidget(pending, openable, f) ==
    IF isEmpty(pending) THEN Fresh ELSE loadConfig(Fresh, pending, openable, f, f)

\* LogTailWidget::serialize
serialize == IF display_ THEN saveConfig(config_) ELSE pending_

\* the objects the host gives to deserialize
PluginObjects == SavedObjects \cup JsonObjects \cup {EmptyObject}

\* LogTailWidget::deserialize
Deserialize ==
    \E data \in PluginObjects :
        /\ pending_' = data
        /\ lastData' = data
        /\ IF display_
           THEN LET s == loadConfig(Cur, data, fileOpenable, file, file)
                IN  Bounded(s) /\ Install(s)
           ELSE Install(Cur)
        /\ op' = [name |-> "deserialize", path |-> "-", size |-> 0]
        /\ UNCHANGED <<alive, display_, file, fileOpenable, truncPending, truncUnseen>>

\* LogTailWidget::createWidget; from then on the engine's variables are those
\* of the display that display_ points to
CreateWidget ==
    /\ LET s == createWidget(pending_, fileOpenable, file)
       IN  Bounded(s) /\ Install(s)
    /\ alive' = TRUE
    /\ display_' = TRUE
    /\ op' = [name |-> "createWidget", path |-> "-", size |-> 0]
    /\ UNCHANGED <<pending_, lastData, file, fileOpenable, truncPending, truncUnseen>>

\* ~LogTailDisplay
Destroy ==
    /\ alive
    /\ Install(stopSource(Cur))
    /\ alive' = FALSE
    /\ op' = [name |-> "destroy", path |-> "-", size |-> 0]
    /\ UNCHANGED <<file, fileOpenable, truncPending, truncUnseen,
                   display_, pending_, lastData>>

\* ------------------------------------------------- the file's environment
EnvStep(f1, openable1, dropsWatch) ==
    /\ alive
    /\ file' = f1
    /\ fileOpenable' = openable1
    /\ watched' = (watched /\ ~dropsWatch)
    /\ notified' = (notified \/ watched)
    /\ truncPending' = (truncPending \/ Len(f1) < Len(file))
    /\ truncUnseen' = (truncUnseen \/ Len(f1) < Len(file))
    /\ op' = [name |-> "env", path |-> "-", size |-> 0]
    /\ UNCHANGED <<display_, pending_, lastData>>
    /\ UNCHANGED <<config_, stackIndex, maxBlockCount, view, colors, filePos_, watcher_,
                   process_, liveWatchers, liveProcs, procState, procBuf, alive,
                   appended, readTo, deltaBytes, deltaLines, tracking>>

\* the writer appends a byte
EnvAppend ==
    \E b \in Bytes : Len(file) < MaxFile /\ EnvStep(file \o <<b>>, fileOpenable, FALSE)

\* the file is cut shorter in place
EnvTruncate ==
    \E k \in 0..(Len(file) - 1) : EnvStep(SubSeq(file, 1, k), fileOpenable, FALSE)

\* the file is replaced by rename with a new, empty one: the watch is dropped
EnvReplace == EnvStep(<<>>, TRUE, TRUE)

\* the file's permissions change
EnvChmod == EnvStep(file, ~fileOpenable, FALSE)

\* a change notification without a change
EnvSpurious == watched /\ ~notified /\ EnvStep(file, fileOpenable, FALSE)

Next ==
    \/ LoadConfig
    \/ OpenConfig
    \/ OnFileChanged
    \/ ProcStarted
    \/ ProcError
    \/ ProcExited
    \/ OnJournalOutput
    \/ Destroy
    \/ EnvAppend
    \/ EnvTruncate
    \/ EnvReplace
    \/ EnvChmod
    \/ EnvSpurious

Spec == Init /\ [][Next]_vars

\* the engine tailing a file: every file operation and every move of the
\* file's environment, no subprocess; the writer moves during the
\* applySource that loadConfig runs and is idle during the dialog's
NextFile ==
    \/ LoadFileConfig
    \/ OpenFileConfigQuiet
    \/ OnFileChanged
    \/ EnvAppend
    \/ EnvTruncate
    \/ EnvReplace
    \/ EnvChmod
    \/ EnvSpurious

SpecFile == Init /\ [][NextFile]_vars

\* the engine tailing a file that an external writer only appends to
NextTail ==
    \/ LoadFileConfigGrowing
    \/ OpenFileConfigGrowing
    \/ OnFileChangedGrowing
    \/ EnvAppend
    \/ EnvSpurious

SpecTail == InitTail /\ [][NextTail]_vars

\* the engine switching between its sources: every operation of the engine,
\* beside a log file that is empty or holds a line and does not change
SourceFiles == {<<>>, <<NL, "a">>}

InitSource ==
    /\ InitEngine
    /\ file \in SourceFiles
    /\ tracking = FALSE

NextSource ==
    \/ LoadConfigQuiet
    \/ OpenConfigQuiet
    \/ OnFileChangedQuiet
    \/ ProcStarted
    \/ ProcError
    \/ ProcExited
    \/ OnJournalOutput
    \/ Destroy
    \/ EnvSpurious

SpecSource == InitSource /\ [][NextSource]_vars

\* the same, with the event loop delivering every signal that waits: a
\* waiting fileChanged is handled, a process that starts is reported started
SpecSourceLive ==
    SpecSource /\ WF_vars(OnFileChangedQuiet) /\ WF_vars(ProcStarted)

\* the engine's configuration saved and loaded, beside an idle log file
NextConfig ==
    \/ LoadSavedConfig
    \/ OpenConfigQuiet
    \/ SaveThenLoad

SpecConfig == InitSource /\ [][NextConfig]_vars

\* a file source opened on every file content up to MaxSeedFile bytes, the
\* file idle
RECURSIVE SeqsUpTo(_, _)
SeqsUpTo(S, n) ==
    IF n = 0 THEN {<<>>}
    ELSE LET shorter == SeqsUpTo(S, n - 1)
         IN  shorter \cup {q \o <<x>> : q \in shorter, x \in S}

SeedFiles == SeqsUpTo(Bytes, MaxSeedFile)

InitSeed ==
    /\ InitEngine
    /\ file \in SeedFiles
    /\ tracking = FALSE

NextSeed ==
    \/ LoadFileConfigQuiet
    \/ OpenFileConfigQuiet

SpecSeed == InitSeed /\ [][NextSeed]_vars

\* the engine on journalctl, which writes whole lines that bear keywords
OpenJournalConfig == OpenConfigOf({"Journalctl"}, {file})

NextColor ==
    \/ OpenJournalConfig
    \/ ProcStarted
    \/ OnJournalLine

SpecColor == Init /\ [][NextColor]_vars

\* the plugin object from its construction: deserialize and createWidget in
\* any order, beside an idle log file
InitPlugin ==
    /\ InitDisplay
    /\ alive = FALSE
    /\ display_ = FALSE
    /\ pending_ = EmptyObject
    /\ lastData = EmptyObject
    /\ file \in SourceFiles
    /\ tracking = FALSE

NextPlugin ==
    \/ Deserialize
    \/ CreateWidget

SpecPlugin == InitPlugin /\ [][NextPlugin]_vars

TypeOK ==
    /\ filePos_ \in 0..MaxFile
    /\ Len(file) <= MaxFile
    /\ liveWatchers \in 0..1
    /\ liveProcs \in 0..1


\* ----------------------------------------------------------------- claims

\* C1: after every append the view holds at most config_.maxLines lines, for
\* every maxLines that loadConfig lets through
C1_ViewWithinMaxLines == Len(view) <= config_.maxLines

\* C2: the view is a contiguous suffix, in insertion order, of the lines
\* appended since the last clear: eviction drops the oldest lines only
C2_ViewIsSuffixOfAppended ==
    \E k \in 0..Len(appended) : view = SubSeq(appended, k + 1, Len(appended))

\* an eviction has happened: lines were appended and only the newest are kept
C2_Witness == view # <<>> /\ Len(view) < Len(appended)

\* C3: the lines emitted by the delta reads are the lines of the bytes they
\* took, split once as a whole
C3_SplitInvariance == deltaLines = linesOf(deltaBytes)

\* C4: a notification handled when the file is smaller than the cursor clears
\* the view, emits the rotation marker once and before the content read from
\* offset 0, and leaves the cursor at the position read to
C4_Rotation ==
    [][(/\ op'.name = "onFileChanged"
        /\ canOpen(config_.filePath, fileOpenable)
        /\ Len(file) < filePos_)
       => (/\ appended' = <<RotationMarker>> \o linesOf(readAllFrom(file', 0))
           /\ view' = ensureMaximumBlockCount(maxBlockCount, appended')
           /\ filePos_' = Len(file'))]_vars

\* a rotation was handled and content of the new file follows the marker
C4_Witness ==
    /\ op.name = "onFileChanged" /\ op.path = "rotatedRead"
    /\ Len(appended) = 2 /\ appended[1] = RotationMarker

\* C5: with a writer that only appends, the cursor of a live file tail is the
\* offset of the first byte not yet read
C5_ExactlyOnce == watcher_ => filePos_ = readTo


\* C6, as stated: the cursor exceeds the file's size only between a
\* truncation and the next handled notification, and at the end of a handled
\* notification it is at most the size the handler saw
C6_CursorWithinCheckedSize ==
    /\ filePos_ <= Len(file) \/ truncPending
    /\ (op.name = "onFileChanged" /\ op.path # "openFailed") => filePos_ <= op.size

\* C6, amended: the cursor exceeds the file's size only from a truncation
\* until a handler next takes the size of the file
C6_CursorWithinSize == filePos_ <= Len(file) \/ truncUnseen

\* a handler could not open the truncated file and the stale cursor stays
C6_Witness ==
    /\ op.name = "onFileChanged" /\ op.path = "openFailed"
    /\ filePos_ > Len(file) /\ truncUnseen

\* C7: a notification handled when the file's size equals the cursor changes
\* neither the cursor nor the view nor the configuration and emits no line
C7_SpuriousIsNoOp ==
    [][(/\ op'.name = "onFileChanged"
        /\ canOpen(config_.filePath, fileOpenable)
        /\ Len(file) = filePos_)
       => (/\ filePos_' = filePos_ /\ view' = view /\ config_' = config_
           /\ appended' = appended)]_vars

\* a spurious notification was handled with lines in the view
C7_Witness ==
    /\ op.name = "onFileChanged" /\ op.path = "spurious"
    /\ view # <<>> /\ filePos_ > 0

\* C8: no handled notification ends with the watch of a live watcher dropped
C8_WatchRearmed == (op.name = "onFileChanged" /\ watcher_) => watched

\* C9: at most one reader object exists, it is the one the pointers name, and
\* it is of the configured kind
C9_OneReader ==
    /\ liveWatchers + liveProcs <= 1
    /\ watcher_ <=> liveWatchers = 1
    /\ process_ <=> liveProcs = 1
    /\ watcher_ => config_.source = "File"
    /\ process_ => config_.source = "Journalctl"

\* a subprocess is the reader after a file with content was tailed
C9_Witness == process_ /\ liveProcs = 1 /\ liveWatchers = 0 /\ filePos_ > 0

\* C10: a second stopSource changes nothing after the first, which leaves no
\* watcher and no subprocess; without a reader the first changes nothing
C10_StopSourceIdempotent ==
    LET once  == stopSource(Cur)
        twice == stopSource(once)
    IN  /\ twice = once
        /\ ~once.watcher_ /\ ~once.process_
        /\ once.liveWatchers = 0 /\ once.liveProcs = 0
        /\ once.config_ = config_ /\ once.filePos_ = filePos_
        /\ (~watcher_ /\ ~process_) => once = Cur

\* the display was destroyed while journalctl ran
C10_Witness ==
    /\ op.name = "destroy" /\ ~alive
    /\ config_.source = "Journalctl" /\ ~process_ /\ liveProcs = 0
    /\ appended # <<>>

\* C11: when loadConfig or openConfig returns, the lines appended since the
\* clear are those of the new source alone (the seed of the file as it is,
\* the one open-failure line, or nothing) and the cursor is the size of the
\* file that was opened, 0 when no file was opened
C11_ConfigureResets ==
    op.name \in {"loadConfig", "openConfig"} =>
        /\ appended =
               (IF op.path = "opened"
                THEN LET all == linesOf(readAllFrom(file, seekTo(Len(file))))
                     IN  mid(all, Len(all) - Max2(0, config_.maxLines))
                ELSE IF op.path = "openFailed"
                     THEN <<CannotOpenLine(config_.filePath)>>
                     ELSE <<>>)
        /\ view = ensureMaximumBlockCount(maxBlockCount, appended)
        /\ filePos_ = (IF op.path = "opened" THEN op.size ELSE 0)

\* C12: loading what saveConfig returns leaves all four fields of the
\* configuration as they were, the unconfigured one included, and saving
\* again gives the same object
C12_RoundTrip ==
    [][op'.name = "saveThenLoad"
       => (/\ config_' = config_
           /\ config_' = configOf(saveConfig(config_))
           /\ saveConfig(config_') = saveConfig(config_))]_vars

\* the round trip was made by an unconfigured engine that holds a path and a
\* unit
C12_Witness ==
    /\ op.name = "saveThenLoad"
    /\ config_.source = "None"
    /\ config_.filePath # <<>> /\ config_.journalUnit # <<>>

C14_Classification ==
    /\ Len(colors) = Len(view)
    /\ \A i \in 1..Len(view) :
           LET head == toUpper(IF Len(view[i]) > 40 THEN SubSeq(view[i], 1, 40)
                               ELSE view[i])
               classes == <<[words |-> {ERROR, FATAL, CRIT, EMERG, ALERT}, color |-> Red],
                            [words |-> {WARN}, color |-> Orange],
                            [words |-> {DEBUG, TRACE, VERBOSE}, color |-> Grey],
                            [words |-> {INFO, NOTICE}, color |-> Cyan]>>
               hits == {c \in 1..4 : \E w \in classes[c].words : contains(head, w)}
           IN  colors[i] = (IF hits = {} THEN Plain ELSE classes[SetMin(hits)].color)

\* a line with WARN inside its first 40 characters and ERROR reaching past
\* them is in the view, in the Warn colour
C14_Witness ==
    \E i \in 1..Len(view) :
        /\ contains(toUpper(left(view[i], HeadLen)), WARN)
        /\ contains(toUpper(view[i]), ERROR)
        /\ ~contains(toUpper(left(view[i], HeadLen)), ERROR)
        /\ colors[i] = Orange

\* C15: a configure to a file that cannot be opened returns with the log view
\* shown, the open-failure line as its only line, the cursor at 0 and no
\* watcher; and every configure to a file that can be opened, the one after
\* such a failure included, seeds the view and starts the watcher
C15_OpenFailureReported ==
    op.name \in {"loadConfig", "openConfig"} =>
        /\ op.path = "openFailed" =>
               /\ view = <<CannotOpenLine(config_.filePath)>>
               /\ colors = <<Red>>
               /\ stackIndex = 1
               /\ filePos_ = 0
               /\ ~watcher_ /\ ~process_ /\ alive
        /\ op.path = "opened" =>
               LET all == linesOf(readAllFrom(file, seekTo(op.size)))
               IN  /\ appended = mid(all, Len(all) - Max2(0, config_.maxLines))
                   /\ view = appended
                   /\ stackIndex = 1
                   /\ filePos_ = op.size
                   /\ watcher_ /\ watched

\* the configured log file exists with content and cannot be read
C15_Witness ==
    /\ op.name \in {"loadConfig", "openConfig"} /\ op.path = "openFailed"
    /\ config_.filePath = LogPath /\ ~fileOpenable /\ file # <<>>
    /\ view = <<CannotOpenLine(LogPath)>>

\* C16: a step adds the 'failed to start' line to the lines appended since
\* the last clear only when QProcess reported FailedToStart, and then it is
\* the only such line
C16_FailedToStartOnly ==
    [][LET count(l) == Cardinality({i \in 1..Len(l) : l[i] = FailedToStartLine})
       IN  count(appended') > count(appended) =>
               /\ op'.name = "errorOccurred" /\ op'.path = "FailedToStart"
               /\ count(appended') = 1]_vars

\* C17: a notification handled while the file cannot be opened appends one
\* status line after the lines already appended, keeps the cursor and keeps
\* the watcher
C17_ReadFailureReported ==
    [][(op'.name = "onFileChanged" /\ ~canOpen(config_.filePath, fileOpenable)) =>
           /\ Len(appended') = Len(appended) + 1
           /\ SubSeq(appended', 1, Len(appended)) = appended
           /\ Len(view') >= 1 /\ view'[Len(view')] = appended'[Len(appended')]
           /\ filePos_' = filePos_
           /\ watcher_']_vars

\* C18: once the subprocess has ended with non-blank bytes after its last
\* line break, those bytes, trimmed, eventually are a line appended to the view
C18_TailEventuallyEmitted ==
    (process_ /\ procState = "NotRunning" /\ trimmed(procBuf) = <<"a">>)
        ~> (\E i \in 1..Len(appended) : appended[i] = <<"a">>)

\* C19: every line in the view is non-empty, begins and ends with a character
\* that is not white space, and holds no line break
C19_LinesAreTrimmed ==
    \A i \in 1..Len(view) :
        /\ view[i] # <<>>
        /\ ~isSpace(view[i][1])
        /\ ~isSpace(view[i][Len(view[i])])
        /\ \A j \in 1..Len(view[i]) : view[i][j] # NL

\* C20: a notification handled after the file shrank (was cut or replaced),
\* whatever the file has grown to since, clears the view, emits the rotation
\* marker and reads the file from offset 0 to its end
C20_TruncationRecovered ==
    [][(/\ op'.name = "onFileChanged"
        /\ canOpen(config_.filePath, fileOpenable)
        /\ truncPending)
       => (/\ appended' = <<RotationMarker>> \o linesOf(readAllFrom(file', 0))
           /\ filePos_' = Len(file'))]_vars

\* C21: after any sequence of deserialize and createWidget the display, once
\* it exists, has the configuration that the object of the last deserialize
\* describes (the default one when there was none), and what serialize
\* returns describes that configuration too, before and after createWidget
C21_OrderIndependent ==
    /\ display_ => config_ = configOf(lastData)
    /\ configOf(serialize) = configOf(lastData)

\* a file source deserialized before the display existed was applied by
\* createWidget
C21_Witness ==
    /\ op.name = "createWidget" /\ display_
    /\ configOf(lastData).source = "File" /\ configOf(lastData).filePath = LogPath
    /\ config_.source = "File" /\ watcher_

====
